---- MODULE Spec2Model ----
(***************************************************************************)
(* Model of backend/models/Subscription.js: the Subscription document, its *)
(* methods (calculateNextRenewal, addPayment, cancelSubscription,          *)
(* isLikelyValid, analyzePaymentConsistency) and its pre('save') hook.     *)
(*                                                                         *)
(* Time.  A Date is a number of ticks since local midnight of 1 January of *)
(* EpochYear; a day has TicksPerDay ticks, so a Date carries a time of day.*)
(* Null (-1) stands for null/undefined; every Date of the model is >= 0.   *)
(***************************************************************************)
EXTENDS Integers, Sequences, FiniteSets

VARIABLES
    now,                      \* the clock read by "new Date()"
    renewalDay,
    nextRenewal,
    isNew,                    \* mongoose: document never saved
    renewalDayModified,       \* mongoose: isModified('renewalDay')
    isActive,
    cancellationDate,
    cancellationReason,
    paymentHistory,
    lastPaymentDate,
    paymentCount,
    isRecurring,
    hasConsistentRenewalDate,
    hasPaymentHistory,
    confidenceScore,
    returned                  \* value returned by the last direct call of a query method

vars == <<now, renewalDay, nextRenewal, isNew, renewalDayModified, isActive,
          cancellationDate, cancellationReason, paymentHistory, lastPaymentDate,
          paymentCount, isRecurring, hasConsistentRenewalDate, hasPaymentHistory,
          confidenceScore, returned>>

Null == -1

-----------------------------------------------------------------------------
(* Bounds *)

TicksPerDay == 2
EpochYear == 2023
MaxYears == 2          \* calendar years the clock of SpecRenewal ranges over
MaxHistory == 3        \* addPayment calls per record
MaxClock == 1          \* clock advances per record

-----------------------------------------------------------------------------
(* The calendar behind the JavaScript Date object *)

IsLeap(y) == (y % 4 = 0 /\ y % 100 # 0) \/ (y % 400 = 0)

DaysInYear(y) == IF IsLeap(y) THEN 366 ELSE 365

\* m is a JavaScript month, 0..11
DaysInMonth(y, m) ==
    IF m = 1 THEN (IF IsLeap(y) THEN 29 ELSE 28)
    ELSE IF m \in {3, 5, 8, 10} THEN 30
    ELSE 31

RECURSIVE DaysBeforeYear(_)
DaysBeforeYear(y) ==
    IF y <= EpochYear THEN 0 ELSE DaysBeforeYear(y - 1) + DaysInYear(y - 1)

RECURSIVE DaysBeforeMonth(_, _)
DaysBeforeMonth(y, m) ==
    IF m = 0 THEN 0 ELSE DaysBeforeMonth(y, m - 1) + DaysInMonth(y, m - 1)

Years == EpochYear .. (EpochYear + MaxYears + 1)

\* new Date(y, m, d): local midnight; a month past December and a day outside
\* the month carry over, as in the Date constructor
MakeDate(y, m, d) ==
    LET yy == y + (m \div 12)
        mm == m % 12
    IN  (DaysBeforeYear(yy) + DaysBeforeMonth(yy, mm) + (d - 1)) * TicksPerDay

DayIndex(t) == t \div TicksPerDay

GetFullYear(t) ==
    CHOOSE y \in Years :
        /\ DaysBeforeYear(y) <= DayIndex(t)
        /\ DayIndex(t) < DaysBeforeYear(y) + DaysInYear(y)

GetMonth(t) ==
    LET y == GetFullYear(t)
        d == DayIndex(t) - DaysBeforeYear(y)
    IN  CHOOSE m \in 0..11 :
            /\ DaysBeforeMonth(y, m) <= d
            /\ d < DaysBeforeMonth(y, m) + DaysInMonth(y, m)

GetDate(t) ==
    LET y == GetFullYear(t)
    IN  DayIndex(t) - DaysBeforeYear(y) - DaysBeforeMonth(y, GetMonth(t)) + 1

TimeOfDay(t) == t % TicksPerDay

\* Date.prototype.setMonth(m): same year, day of month and time of day
SetMonth(t, m) == MakeDate(GetFullYear(t), m, GetDate(t)) + TimeOfDay(t)

\* Date.prototype.setDate(d): same year, month and time of day
SetDate(t, d) == MakeDate(GetFullYear(t), GetMonth(t), d) + TimeOfDay(t)

-----------------------------------------------------------------------------
(* calculateNextRenewal *)

calculateNextRenewal(clock, day) ==
    LET candidate == MakeDate(GetFullYear(clock), GetMonth(clock), day)
        advanced  == IF candidate <= clock
                     THEN SetMonth(candidate, GetMonth(candidate) + 1)
                     ELSE candidate
    IN  IF GetDate(advanced) # day THEN SetDate(advanced, 0) ELSE advanced

-----------------------------------------------------------------------------
(* analyzePaymentConsistency *)

\* Array.prototype.sort with the comparator a.date - b.date: stable, so an
\* element goes after every element whose date is not later
RECURSIVE InsertByDate(_, _)
InsertByDate(s, e) ==
    IF s = <<>> THEN <<e>>
    ELSE IF Head(s).date <= e.date THEN <<Head(s)>> \o InsertByDate(Tail(s), e)
    ELSE <<e>> \o s

RECURSIVE SortByDate(_)
SortByDate(s) ==
    IF s = <<>> THEN <<>>
    ELSE InsertByDate(SortByDate(SubSeq(s, 1, Len(s) - 1)), s[Len(s)])

\* the intervals loop and the reduce over it: the sum of the gaps, in ticks
RECURSIVE IntervalSum(_, _)
IntervalSum(s, i) ==
    IF i > Len(s) THEN 0 ELSE (s[i].date - s[i - 1].date) + IntervalSum(s, i + 1)

RECURSIVE AmountSum(_, _)
AmountSum(s, i) ==
    IF i > Len(s) THEN 0 ELSE s[i].amount + AmountSum(s, i + 1)

Abs(x) == IF x < 0 THEN 0 - x ELSE x

\* variant: the range taken exclusive
HasMonthlyPatternStrict(sum, count) ==
    /\ sum > 25 * TicksPerDay * count
    /\ sum < 35 * TicksPerDay * count

\* averageInterval >= 25 && averageInterval <= 35, the average being
\* sum / (TicksPerDay * count) days
HasMonthlyPattern(sum, count) ==
    /\ sum >= 25 * TicksPerDay * count
    /\ sum <= 35 * TicksPerDay * count

\* amounts.every(amount => Math.abs(amount - avgAmount) <= avgAmount * 0.1),
\* avgAmount being total / Len(s); both sides multiplied by 10 * Len(s)
IsConsistent(s) ==
    LET total == AmountSum(s, 1)
    IN  \A i \in 1..Len(s) : 10 * Abs(Len(s) * s[i].amount - total) <= total

\* The method sorts this.paymentHistory in place: "history" is the array it
\* leaves behind, "result" the object it returns.  averageInterval is the
\* fraction num / den days.
analyzePaymentConsistency(history) ==
    IF Len(history) < 2
    THEN [history |-> history,
          result  |-> [isConsistent |-> FALSE,
                       averageInterval |-> [num |-> 0, den |-> 1],
                       hasMonthlyPattern |-> FALSE,
                       paymentCount |-> Null]]
    ELSE LET sortedPayments == SortByDate(history)
             sum   == IntervalSum(sortedPayments, 2)
             count == Len(sortedPayments) - 1
         IN  [history |-> sortedPayments,
              result  |-> [isConsistent |-> IsConsistent(sortedPayments),
                           averageInterval |-> [num |-> sum, den |-> TicksPerDay * count],
                           hasMonthlyPattern |-> HasMonthlyPattern(sum, count),
                           paymentCount |-> Len(sortedPayments)]]

-----------------------------------------------------------------------------
(* isLikelyValid *)

\* Math.floor((new Date() - this.lastPaymentDate) / 86400000), or 999
DaysSinceLastPayment(clock, last) ==
    IF last # Null THEN (clock - last) \div TicksPerDay ELSE 999

\* variant: the second rule cut off before 90 days
isLikelyValidEarly(clock, last, count, recurring, score) ==
    LET daysSinceLastPayment == DaysSinceLastPayment(clock, last)
    IN  IF daysSinceLastPayment > 180 THEN FALSE
        ELSE IF count > 1 /\ recurring /\ daysSinceLastPayment < 90 THEN TRUE
        ELSE IF count = 1 /\ score >= 6 /\ daysSinceLastPayment <= 60 THEN TRUE
        ELSE IF daysSinceLastPayment <= 30 /\ score >= 4 THEN TRUE
        ELSE FALSE

isLikelyValid(clock, last, count, recurring, score) ==
    LET daysSinceLastPayment == DaysSinceLastPayment(clock, last)
    IN  IF daysSinceLastPayment > 180 THEN FALSE
        ELSE IF count > 1 /\ recurring /\ daysSinceLastPayment <= 90 THEN TRUE
        ELSE IF count = 1 /\ score >= 6 /\ daysSinceLastPayment <= 60 THEN TRUE
        ELSE IF daysSinceLastPayment <= 30 /\ score >= 4 THEN TRUE
        ELSE FALSE

-----------------------------------------------------------------------------
(* Inputs *)

Days(n) == n * TicksPerDay

\* the clock when the record is constructed: 1 April of EpochYear, midday
StartNow == MakeDate(EpochYear, 3, 1) + 1

\* the clock advances a month at a time
ClockStep == Days(30)

\* explicit payment dates: 25 days apart, the later one 35 days before
\* StartNow; a payment without a date falls on the clock, which moves 30 days
PayDates == {StartNow - Days(60), StartNow - Days(35)}

\* 90 and 110 are each exactly 10% off their mean; 90, 90 and 110 are not
\* all within 10% of theirs
Amounts == {90, 110}

\* paymentData: date may be missing (Null); currency, subject and confidence
\* are left out by every caller of the model
PaymentInputs == [date : PayDates \cup {Null}, amount : Amounts]

RenewalDays == {15, 31}

\* confidenceScore given to the constructor
InitialScores == {0, 9}

Undefined == "undefined"
ReasonInputs == {Undefined, "Too expensive"}

NoReturn == [op |-> "none", value |-> Null]

-----------------------------------------------------------------------------
(* Construction *)

\* schema defaults of a document that is constructed and not yet saved
Defaults ==
    /\ nextRenewal = Null
    /\ isNew = TRUE
    /\ renewalDayModified = TRUE
    /\ isActive = TRUE
    /\ cancellationDate = Null
    /\ cancellationReason = ""
    /\ paymentHistory = <<>>
    /\ lastPaymentDate = Null
    /\ paymentCount = 0
    /\ isRecurring = FALSE
    /\ hasConsistentRenewalDate = FALSE
    /\ hasPaymentHistory = FALSE
    /\ returned = NoReturn

Init ==
    /\ now = StartNow
    /\ renewalDay \in RenewalDays
    /\ confidenceScore \in InitialScores
    /\ Defaults

-----------------------------------------------------------------------------
(* pre('save') *)

\* variant: the cancellation test left out
RenewalOnSaveKeepsCancelled ==
    IF nextRenewal = Null \/ renewalDayModified \/ isNew
    THEN calculateNextRenewal(now, renewalDay)
    ELSE nextRenewal

\* variant: the cancellation test made before the recomputation
RenewalOnSaveCancelFirst ==
    LET cleared == IF cancellationDate # Null THEN Null ELSE nextRenewal
    IN  IF cleared = Null \/ renewalDayModified \/ isNew
        THEN calculateNextRenewal(now, renewalDay)
        ELSE cleared

\* the value the hook leaves in this.nextRenewal
RenewalOnSave ==
    LET computed == IF nextRenewal = Null \/ renewalDayModified \/ isNew
                    THEN calculateNextRenewal(now, renewalDay)
                    ELSE nextRenewal
    IN  IF cancellationDate # Null THEN Null ELSE computed

\* document.save(): the hook runs, then mongoose clears isNew and the
\* modified paths
Save ==
    /\ nextRenewal' = RenewalOnSave
    /\ isNew' = FALSE
    /\ renewalDayModified' = FALSE
    /\ returned' = NoReturn
    /\ UNCHANGED <<now, renewalDay, isActive, cancellationDate, cancellationReason,
                   paymentHistory, lastPaymentDate, paymentCount, isRecurring,
                   hasConsistentRenewalDate, hasPaymentHistory, confidenceScore>>

\* doc.renewalDay = d: mongoose marks the path modified when the value changes
SetRenewalDay(d) ==
    /\ d # renewalDay
    /\ renewalDay' = d
    /\ renewalDayModified' = TRUE
    /\ returned' = NoReturn
    /\ UNCHANGED <<now, nextRenewal, isNew, isActive, cancellationDate,
                   cancellationReason, paymentHistory, lastPaymentDate, paymentCount,
                   isRecurring, hasConsistentRenewalDate, hasPaymentHistory,
                   confidenceScore>>

-----------------------------------------------------------------------------
(* addPayment *)

\* the element pushed on paymentHistory
StoredPayment(p, clock) ==
    [date         |-> IF p.date # Null THEN p.date ELSE clock,
     amount       |-> p.amount,
     currency     |-> "USD",
     emailSubject |-> "",
     confidence   |-> 0]

LastPaymentDateOf(p, clock) == IF p.date # Null THEN p.date ELSE clock

\* variant: the length read before the push
CountBeforePush(pushed) == Len(pushed) - 1

\* this.paymentCount = this.paymentHistory.length, after the push
CountAfterPush(pushed) == Len(pushed)

\* variant: the analysis run from the first payment on
HasAnyPayment(count) == count > 0

\* if (this.paymentCount > 1)
HasMultiplePayments(count) == count > 1

\* variant: 8 assigned without Math.max
ScoreAssigned(score, result) ==
    IF result.isConsistent /\ result.hasMonthlyPattern THEN 8 ELSE score

\* Math.max(this.confidenceScore, 8) under the pattern test
ScoreAfter(score, result) ==
    IF result.isConsistent /\ result.hasMonthlyPattern
    THEN (IF score >= 8 THEN score ELSE 8)
    ELSE score

AddPayment(p) ==
    /\ Len(paymentHistory) < MaxHistory
    /\ LET pushed   == Append(paymentHistory, StoredPayment(p, now))
           count    == CountAfterPush(pushed)
           analysis == analyzePaymentConsistency(pushed)
       IN  /\ lastPaymentDate' = LastPaymentDateOf(p, now)
           /\ paymentCount' = count
           /\ IF HasMultiplePayments(count)
              THEN /\ paymentHistory' = analysis.history
                   /\ isRecurring' = TRUE
                   /\ hasConsistentRenewalDate' = analysis.result.hasMonthlyPattern
                   /\ hasPaymentHistory' = TRUE
                   /\ confidenceScore' = ScoreAfter(confidenceScore, analysis.result)
              ELSE /\ paymentHistory' = pushed
                   /\ UNCHANGED <<isRecurring, hasConsistentRenewalDate,
                                  hasPaymentHistory, confidenceScore>>
    /\ returned' = NoReturn
    /\ UNCHANGED <<now, renewalDay, nextRenewal, isNew, renewalDayModified, isActive,
                   cancellationDate, cancellationReason>>

\* a direct call of analyzePaymentConsistency()
AnalyzePaymentConsistency ==
    LET analysis == analyzePaymentConsistency(paymentHistory)
    IN  /\ paymentHistory' = analysis.history
        /\ returned' = [op |-> "analyzePaymentConsistency", value |-> analysis.result]
        /\ UNCHANGED <<now, renewalDay, nextRenewal, isNew, renewalDayModified,
                       isActive, cancellationDate, cancellationReason, lastPaymentDate,
                       paymentCount, isRecurring, hasConsistentRenewalDate,
                       hasPaymentHistory, confidenceScore>>

-----------------------------------------------------------------------------
(* cancelSubscription *)

CancelSubscription(reason) ==
    /\ isActive' = FALSE
    /\ cancellationDate' = now
    /\ cancellationReason' = IF reason = Undefined THEN "User cancelled" ELSE reason
    /\ returned' = NoReturn
    /\ UNCHANGED <<now, renewalDay, nextRenewal, isNew, renewalDayModified,
                   paymentHistory, lastPaymentDate, paymentCount, isRecurring,
                   hasConsistentRenewalDate, hasPaymentHistory, confidenceScore>>

-----------------------------------------------------------------------------
(* The record's life *)

Tick ==
    /\ now < StartNow + MaxClock * ClockStep
    /\ now' = now + ClockStep
    /\ UNCHANGED <<renewalDay, nextRenewal, isNew, renewalDayModified, isActive,
                   cancellationDate, cancellationReason, paymentHistory,
                   lastPaymentDate, paymentCount, isRecurring,
                   hasConsistentRenewalDate, hasPaymentHistory, confidenceScore,
                   returned>>

Next ==
    \/ Save
    \/ \E d \in RenewalDays : SetRenewalDay(d)
    \/ \E p \in PaymentInputs : AddPayment(p)
    \/ AnalyzePaymentConsistency
    \/ \E r \in ReasonInputs : CancelSubscription(r)
    \/ Tick

Spec == Init /\ [][Next]_vars

-----------------------------------------------------------------------------
(* calculateNextRenewal on its own: every clock value of MaxYears calendar   *)
(* years, at every time of day, and every renewalDay the schema admits       *)

InitRenewal ==
    /\ now \in 0 .. (MakeDate(EpochYear + MaxYears, 0, 1) - 1)
    /\ renewalDay \in 1..31
    /\ confidenceScore = 0
    /\ Defaults

CalculateNextRenewal ==
    /\ returned' = [op |-> "calculateNextRenewal",
                    value |-> calculateNextRenewal(now, renewalDay)]
    /\ UNCHANGED <<now, renewalDay, nextRenewal, isNew, renewalDayModified, isActive,
                   cancellationDate, cancellationReason, paymentHistory,
                   lastPaymentDate, paymentCount, isRecurring,
                   hasConsistentRenewalDate, hasPaymentHistory, confidenceScore>>

NextRenewal == CalculateNextRenewal

SpecRenewal == InitRenewal /\ [][NextRenewal]_vars

-----------------------------------------------------------------------------
(* isLikelyValid on its own: a document whose fields are given to the        *)
(* constructor, every combination of the fields the method reads             *)

ValidNow == Days(400)

\* ages of the last payment in whole days, on both sides of each threshold
ValidAges == {0, 10, 30, 31, 60, 61, 90, 91, 180, 181, 200}

\* each age exactly and with a further tick (a part of a day) on top; and a
\* last payment dated one tick after the clock
ValidLastDates ==
    {ValidNow - Days(a) - h : a \in ValidAges, h \in {0, 1}} \cup {ValidNow + 1, Null}

ValidScores == {0, 3, 4, 5, 6, 8}

InitValid ==
    /\ now = ValidNow
    /\ renewalDay = 15
    /\ nextRenewal = Null
    /\ isNew = TRUE
    /\ renewalDayModified = TRUE
    /\ isActive = TRUE
    /\ cancellationDate = Null
    /\ cancellationReason = ""
    /\ paymentHistory = <<>>
    /\ lastPaymentDate \in ValidLastDates
    /\ paymentCount \in 0..3
    /\ isRecurring \in BOOLEAN
    /\ hasConsistentRenewalDate = FALSE
    /\ hasPaymentHistory = FALSE
    /\ confidenceScore \in ValidScores
    /\ returned = NoReturn

IsLikelyValid ==
    /\ returned' = [op |-> "isLikelyValid",
                    value |-> isLikelyValid(now, lastPaymentDate, paymentCount,
                                            isRecurring, confidenceScore)]
    /\ UNCHANGED <<now, renewalDay, nextRenewal, isNew, renewalDayModified, isActive,
                   cancellationDate, cancellationReason, paymentHistory,
                   lastPaymentDate, paymentCount, isRecurring,
                   hasConsistentRenewalDate, hasPaymentHistory, confidenceScore>>

NextValid == IsLikelyValid

SpecValid == InitValid /\ [][NextValid]_vars

-----------------------------------------------------------------------------
(* Properties *)

AddPaymentStep == \E p \in PaymentInputs : AddPayment(p)

CancelStep == \E r \in ReasonInputs : CancelSubscription(r)

LastDayOfMonth(t) == DaysInMonth(GetFullYear(t), GetMonth(t))

\* C1: whatever the clock and renewalDay in 1..31, calculateNextRenewal
\* returns a date strictly after the clock whose day of month is renewalDay,
\* or the last day of its month when renewalDay exceeds that month's length
C1_NextRenewalAfterNow ==
    returned.op = "calculateNextRenewal" =>
        /\ returned.value > now
        /\ \/ GetDate(returned.value) = renewalDay
           \/ /\ renewalDay > LastDayOfMonth(returned.value)
              /\ GetDate(returned.value) = LastDayOfMonth(returned.value)

\* C2: once the record has been saved, nextRenewal is non-null exactly when
\* cancellationDate is null, in every state
C2_RenewalIffNotCancelled ==
    ~isNew => ((nextRenewal # Null) <=> (cancellationDate = Null))

\* C2, amended: every save leaves nextRenewal non-null exactly when
\* cancellationDate is null
C2_RenewalIffNotCancelledOnSave ==
    [][Save => ((nextRenewal' # Null) <=> (cancellationDate' = Null))]_vars

C2_Witness ==
    /\ ~isNew
    /\ cancellationDate # Null
    /\ nextRenewal = Null
    /\ returned = NoReturn

\* C3: a call of analyzePaymentConsistency changes no field, and addPayment,
\* which calls it, leaves the earlier events of paymentHistory where they
\* were, with the new event after them
C3_AnalysisIsPure ==
    [][/\ AnalyzePaymentConsistency => paymentHistory' = paymentHistory
       /\ AddPaymentStep =>
              /\ Len(paymentHistory') = Len(paymentHistory) + 1
              /\ SubSeq(paymentHistory', 1, Len(paymentHistory)) = paymentHistory]_vars

\* C4: paymentCount is the length of paymentHistory in every state, and each
\* addPayment makes paymentHistory one longer
C4_AppendOnly ==
    /\ [](paymentCount = Len(paymentHistory))
    /\ [][AddPaymentStep => Len(paymentHistory') = Len(paymentHistory) + 1]_vars

C4_Witness ==
    /\ paymentCount = 3
    /\ Len(paymentHistory) = 3
    /\ cancellationDate # Null
    /\ ~isNew

\* C5: addPayment never lowers confidenceScore
C5_ScoreRatchet ==
    [][AddPaymentStep => confidenceScore' >= confidenceScore]_vars

\* a record constructed with score 9 on which addPayment found the pattern
C5_Witness ==
    /\ confidenceScore = 9
    /\ paymentCount > 1
    /\ hasConsistentRenewalDate
    /\ IsConsistent(paymentHistory)

PaymentDates(h) == {h[i].date : i \in 1..Len(h)}

SetMax(S) == CHOOSE x \in S : \A y \in S : y <= x

SetMin(S) == CHOOSE x \in S : \A y \in S : x <= y

\* the gaps between date-sorted consecutive payments add up to the time from
\* the earliest payment to the latest; their mean is in [25, 35] days
MeanGapMonthly(h) ==
    LET span == SetMax(PaymentDates(h)) - SetMin(PaymentDates(h))
        gaps == Len(h) - 1
    IN  /\ 25 * TicksPerDay * gaps <= span
        /\ span <= 35 * TicksPerDay * gaps

RECURSIVE TotalAmount(_)
TotalAmount(h) == IF h = <<>> THEN 0 ELSE Head(h).amount + TotalAmount(Tail(h))

\* |amount - mean| <= 0.1 * mean for every payment, times 10 * Len(h)
AmountsWithinTenPercent(h) ==
    \A i \in 1..Len(h) :
        /\ 10 * (Len(h) * h[i].amount - TotalAmount(h)) <= TotalAmount(h)
        /\ 10 * (TotalAmount(h) - Len(h) * h[i].amount) <= TotalAmount(h)

\* C6: with more than one payment recorded, hasConsistentRenewalDate tells
\* whether the mean gap of the history is in [25, 35] days, and
\* confidenceScore is at least 8 when it is and the amounts are within 10%
\* of their mean
C6_MonthlyPattern ==
    paymentCount > 1 =>
        /\ hasConsistentRenewalDate <=> MeanGapMonthly(paymentHistory)
        /\ (MeanGapMonthly(paymentHistory) /\ AmountsWithinTenPercent(paymentHistory))
               => confidenceScore >= 8

\* two payments of the same amount 30 days apart, on a record constructed
\* with score 0
C6_Witness ==
    /\ paymentCount = 2
    /\ paymentHistory[2].date - paymentHistory[1].date = Days(30)
    /\ paymentHistory[1].amount = paymentHistory[2].amount
    /\ hasConsistentRenewalDate
    /\ confidenceScore = 8

\* C7: cancelSubscription clears isActive and keeps paymentHistory and
\* paymentCount; from then on the record stays cancelled and inactive, and
\* every save leaves nextRenewal null
C7_CancelOneWay ==
    [][/\ CancelStep => /\ ~isActive'
                        /\ cancellationDate' # Null
                        /\ paymentHistory' = paymentHistory
                        /\ paymentCount' = paymentCount
       /\ cancellationDate # Null => (cancellationDate' # Null /\ ~isActive')
       /\ (cancellationDate # Null /\ Save) => nextRenewal' = Null]_vars

\* cancelled, saved, and a payment recorded at a later clock value
C7_Witness ==
    /\ cancellationDate # Null
    /\ ~isActive
    /\ ~isNew
    /\ nextRenewal = Null
    /\ lastPaymentDate > cancellationDate

\* C8: isRecurring is true exactly in the states with more than one payment
C8_RecurringIffMultiple ==
    /\ isRecurring => paymentCount > 1
    /\ paymentCount > 1 => isRecurring

C8_Witness ==
    /\ isRecurring
    /\ paymentCount = 3
    /\ cancellationDate # Null
    /\ ~isNew
    /\ returned.op = "analyzePaymentConsistency"

\* whole days from lastPaymentDate to the clock; 999 without a payment
WholeDaysSince ==
    IF lastPaymentDate = Null THEN 999
    ELSE CHOOSE d \in -1..400 :
             /\ d * TicksPerDay <= now - lastPaymentDate
             /\ now - lastPaymentDate < (d + 1) * TicksPerDay

\* C9: isLikelyValid returns what the ordered policy gives: false beyond 180
\* days, else true when one of the three rules applies
C9_ValidityPolicy ==
    returned.op = "isLikelyValid" =>
        (returned.value <=>
            /\ WholeDaysSince <= 180
            /\ \/ paymentCount > 1 /\ isRecurring /\ WholeDaysSince <= 90
               \/ paymentCount = 1 /\ confidenceScore >= 6 /\ WholeDaysSince <= 60
               \/ WholeDaysSince <= 30 /\ confidenceScore >= 4)

\* three payments, recurring, the last one exactly 90 days old
C9_Witness ==
    /\ returned.op = "isLikelyValid"
    /\ returned.value
    /\ paymentCount = 3
    /\ isRecurring
    /\ confidenceScore = 0
    /\ now - lastPaymentDate = Days(90)

\* C10: when every payment was recorded with an explicit date,
\* lastPaymentDate is the latest date in paymentHistory
C10_LastPaymentIsLatest ==
    (paymentCount > 0 /\ PaymentDates(paymentHistory) \subseteq PayDates) =>
        lastPaymentDate = SetMax(PaymentDates(paymentHistory))

====
